---- MODULE Spec2Model ----
(***************************************************************************)
(* Money Tracker AI (src/app.py): the record store (upsert by date), the   *)
(* aggregation engine (calculate_comparison, projected_month_year), the    *)
(* feedback classifier (dominant_category, determine_feedback) and the     *)
(* catalog matcher (pick_best_item).                                       *)
(*                                                                         *)
(* Amounts are whole dollars (the step of the number inputs), on which     *)
(* float addition is exact.  A float is the fraction [num, den] it equals, *)
(* in lowest terms; a division or multiplication of floats is the exact    *)
(* result rounded to nearest, ties to even, on a significand of            *)
(* SignificandBits bits (53 in the program, fewer here: the amounts of the *)
(* model are chosen so that every whole number met is exact, as in the     *)
(* program).                                                               *)
(***************************************************************************)
EXTENDS Integers, Sequences, FiniteSets

VARIABLES
    store,          \* table daily_spending: spend_date text -> row
    clock,          \* datetime.now(), in seconds
    log,            \* the upsert_spending calls made so far, in order
    all_df,         \* the data frame load_all_data returned
    selected_date,  \* the date argument of the aggregation functions
    comparison,     \* result of calculate_comparison
    projected,      \* result of projected_month_year
    latest_row,     \* the dict argument of determine_feedback
    projected_year, \* the projected_year argument of determine_feedback
    feedback,       \* result of determine_feedback
    catalog,        \* the catalog argument of pick_best_item
    budget,         \* the budget argument of pick_best_item
    picked,         \* result of pick_best_item
    openai_api_key, \* the sidebar's API key
    remote,         \* what the quote service does when it is called
    quote_result,   \* outcome of the get_rich_quote call
    rich_quote,     \* st.session_state.rich_quote
    entered,        \* the four amounts in the number inputs
    save_pressed,   \* the Save Expense button of this pass
    generate_quote, \* the Generate Rich Quote button of this pass
    shown_error,    \* the st.error of this pass
    rendered,       \* the closing stages this pass has rendered
    pc              \* position of the running specification

vars == <<store, clock, log, all_df, selected_date, comparison, projected,
          latest_row, projected_year, feedback, catalog, budget, picked,
          openai_api_key, remote, quote_result, rich_quote, entered,
          save_pressed, generate_quote, shown_error, rendered, pc>>

storeVars == <<store, clock, log>>
aggVars == <<all_df, selected_date, comparison, projected>>
fbVars == <<latest_row, projected_year, feedback>>
catVars == <<catalog, budget, picked>>
quoteVars == <<openai_api_key, remote, quote_result>>
passVars == <<rich_quote, entered, save_pressed, generate_quote, shown_error, rendered>>

----------------------------------------------------------------------------
(* Bounds of the model.                                                    *)

MaxOps == 3         \* upsert_spending calls in one behaviour
MaxTime == 2        \* seconds the clock advances
MaxRecords == 3     \* rows of a history handed to the aggregation engine
MaxCatalogLen == 3  \* items of a synthetic catalog
MaxContentLen == 3  \* characters of a response content
SignificandBits == 16   \* bits of a float's significand

None == "None"

----------------------------------------------------------------------------
(* Calendar dates.  A datetime.date is [year, month, day]; its isoformat   *)
(* text 'YYYY-MM-DD' is the triple of its zero-padded fields, compared     *)
(* field by field as text compares; a pandas Timestamp is a day count on   *)
(* the time line.                                                          *)

Date(y, m, d) == [year |-> y, month |-> m, day |-> d]

isoformat(dt) == <<dt.year, dt.month, dt.day>>

TextLess(a, b) ==
    \/ a[1] < b[1]
    \/ a[1] = b[1] /\ a[2] < b[2]
    \/ a[1] = b[1] /\ a[2] = b[2] /\ a[3] < b[3]

\* Days since 1970-01-01 of a proleptic Gregorian date.
DaysFromCivil(y0, m, d) ==
    LET y == IF m <= 2 THEN y0 - 1 ELSE y0
        era == y \div 400
        yoe == y - era * 400
        mp == IF m > 2 THEN m - 3 ELSE m + 9
        doy == (153 * mp + 2) \div 5 + d - 1
        doe == yoe * 365 + yoe \div 4 - yoe \div 100 + doy
    IN  era * 146097 + doe - 719468

\* The calendar fields of a day count.
CivilFromDays(z0) ==
    LET z == z0 + 719468
        era == z \div 146097
        doe == z - era * 146097
        yoe == (doe - doe \div 1460 + doe \div 36524 - doe \div 146096) \div 365
        doy == doe - (365 * yoe + yoe \div 4 - yoe \div 100)
        mp == (5 * doy + 2) \div 153
        d == doy - (153 * mp + 2) \div 5 + 1
        m == IF mp < 10 THEN mp + 3 ELSE mp - 9
        y == yoe + era * 400
    IN  Date(IF m <= 2 THEN y + 1 ELSE y, m, d)

\* pd.to_datetime on a stored spend_date text.
to_datetime(text) == DaysFromCivil(text[1], text[2], text[3])

\* pd.Timestamp(selected) on a datetime.date.
Timestamp(dt) == DaysFromCivil(dt.year, dt.month, dt.day)

\* Series.dt.year and Series.dt.month.
dt_year(ts) == CivilFromDays(ts).year
dt_month(ts) == CivilFromDays(ts).month

\* ts - pd.Timedelta(days = n).
MinusDays(ts, n) == ts - n

\* The dates of the model: a selected day S = 2024-03-15, the days 1, 7, 8,
\* 30 and 31 before it, the same day one year earlier, the day after it and
\* a day of the next month.
DateSet ==
    { Date(2024, 3, 15), Date(2024, 3, 14), Date(2024, 3, 8), Date(2024, 3, 7),
      Date(2024, 2, 14), Date(2024, 2, 13), Date(2023, 3, 15),
      Date(2024, 3, 16), Date(2024, 4, 1) }

\* The dates saved through upsert_spending in the store specification.
SaveDates == { Date(2024, 3, 15), Date(2024, 3, 14), Date(2024, 2, 14) }

----------------------------------------------------------------------------
(* Floats.                                                                 *)

RECURSIVE GCD(_, _)
GCD(a, b) == IF b = 0 THEN a ELSE GCD(b, a % b)

RECURSIVE Pow2(_)
Pow2(k) == IF k = 0 THEN 1 ELSE 2 * Pow2(k - 1)

\* The fraction n / d in lowest terms.
Frac(n, d) == LET g == GCD(n, d) IN [num |-> n \div g, den |-> d \div g]

Zero == [num |-> 0, den |-> 1]

\* float(n) of a whole number n (exact below 2^SignificandBits).
Float(n) == [num |-> n, den |-> 1]

RECURSIVE Scaled(_, _, _)
\* n / d times a power of two, brought into [2^(bits-1), 2^bits): the
\* fraction [n, d] returned, times 2^(-s), is the fraction given.
Scaled(n, d, s) ==
    IF n \div d >= Pow2(SignificandBits)
    THEN (IF n % 2 = 0 THEN Scaled(n \div 2, d, s - 1) ELSE Scaled(n, 2 * d, s - 1))
    ELSE IF n \div d < Pow2(SignificandBits - 1)
    THEN (IF d % 2 = 0 THEN Scaled(n, d \div 2, s + 1) ELSE Scaled(2 * n, d, s + 1))
    ELSE [n |-> n, d |-> d, s |-> s]

\* The float nearest to the fraction q >= 0, ties to the even significand.
Round(q) ==
    IF q.num = 0 THEN Zero
    ELSE LET x == Scaled(q.num, q.den, 0)
             m0 == x.n \div x.d
             r == x.n % x.d
             m == IF 2 * r > x.d \/ (2 * r = x.d /\ m0 % 2 = 1) THEN m0 + 1 ELSE m0
         IN  IF x.s >= 0 THEN Frac(m, Pow2(x.s)) ELSE Frac(m * Pow2(-x.s), 1)

\* a / b on floats holding the whole numbers a and b.
Divide(a, b) == Round(Frac(a, b))

\* q * k for a float q and a whole number k.
Times(q, k) == Round(Frac(q.num * k, q.den))

\* a >= b on floats (their denominators are powers of two).
GreaterEq(a, b) ==
    IF a.den >= b.den THEN a.num >= b.num * (a.den \div b.den)
    ELSE a.num * (b.den \div a.den) >= b.num

\* q >= k for a float q and a whole number k.
AtLeast(q, k) == GreaterEq(q, Float(k))

----------------------------------------------------------------------------
(* Record Store.                                                           *)

\* The four amounts of a saved day, as the number inputs deliver them.
Amounts(f, s, l, o) == [food |-> f, shopping |-> s, leisure |-> l, other |-> o]

AmountRows ==
    { Amounts(0, 0, 0, 0), Amounts(10, 20, 30, 40), Amounts(5, 0, 0, 2) }

\* init_db: the table exists and is empty on first run.
init_db == << >>

\* The VALUES row of the INSERT.
ExcludedRow(food, shopping, leisure, other, total, now) ==
    [food |-> food, shopping |-> shopping, leisure |-> leisure, other |-> other,
     total |-> total, created_at |-> now, updated_at |-> now]

\* ON CONFLICT(spend_date) DO UPDATE SET ...
OnConflictUpdate_KeepTotal(old, excluded) ==
    [old EXCEPT !.food = excluded.food, !.shopping = excluded.shopping,
                !.leisure = excluded.leisure, !.other = excluded.other,
                !.updated_at = excluded.updated_at]

OnConflictUpdate(old, excluded) ==
    [old EXCEPT !.food = excluded.food, !.shopping = excluded.shopping,
                !.leisure = excluded.leisure, !.other = excluded.other,
                !.total = excluded.total,
                !.updated_at = excluded.updated_at]

\* INSERT ... ON CONFLICT on the primary key spend_date.
InsertOrUpdate_Replace(db, spend_date, excluded) ==
    [k \in DOMAIN db \cup {spend_date} |->
        IF k = spend_date THEN excluded ELSE db[k]]

InsertOrUpdate(db, spend_date, excluded) ==
    [k \in DOMAIN db \cup {spend_date} |->
        IF k # spend_date THEN db[k]
        ELSE IF k \in DOMAIN db THEN OnConflictUpdate(db[k], excluded)
        ELSE excluded]

upsert_spending(db, spend_date, food, shopping, leisure, other, now) ==
    LET total == food + shopping + leisure + other
    IN  InsertOrUpdate(db, spend_date,
                       ExcludedRow(food, shopping, leisure, other, total, now))

----------------------------------------------------------------------------
(* Aggregation Engine.                                                     *)

\* pd.NaT, what errors="coerce" makes of an unparseable date; dropna drops it.
NaT == "NaT"

notna(ts) == ts \in Int

RECURSIVE OrderBySpendDate(_)
\* ORDER BY spend_date ASC over the text keys.
OrderBySpendDate(keys) ==
    IF keys = {} THEN << >>
    ELSE LET first == CHOOSE k \in keys : \A j \in keys \ {k} : TextLess(k, j)
         IN  <<first>> \o OrderBySpendDate(keys \ {first})

\* load_all_data: every row in date order, spend_date parsed to a Timestamp.
load_all_data(db) ==
    LET keys == OrderBySpendDate(DOMAIN db)
        df == [i \in 1..Len(keys) |->
                 [spend_date |-> to_datetime(keys[i]),
                  food |-> db[keys[i]].food, shopping |-> db[keys[i]].shopping,
                  leisure |-> db[keys[i]].leisure, other |-> db[keys[i]].other,
                  total |-> db[keys[i]].total]]
        valid(r) == notna(r.spend_date)
    IN  SelectSeq(df, valid)

\* ensure_datetime_spend_date: the column is already Timestamps; NaT rows go.
ensure_datetime_spend_date(df) ==
    LET valid(r) == notna(r.spend_date)
    IN  SelectSeq(df, valid)

RECURSIVE SumTotal(_)
SumTotal(df) == IF df = << >> THEN 0 ELSE Head(df).total + SumTotal(Tail(df))

\* float(df["total"].mean()) of a non-empty frame.
MeanTotal(df) == Divide(SumTotal(df), Len(df))

\* df[df["spend_date"] == ts]["total"].iloc[0] if the selection is not empty else 0.0
TotalOn_OrLatest(df, ts) ==
    LET on(r) == r.spend_date = ts
        rows == SelectSeq(df, on)
    IN  IF rows # << >> THEN Float(rows[1].total) ELSE Float(df[Len(df)].total)

TotalOn(df, ts) ==
    LET on(r) == r.spend_date = ts
        rows == SelectSeq(df, on)
    IN  IF rows # << >> THEN Float(rows[1].total) ELSE Zero

\* (df["spend_date"] >= start) & (df["spend_date"] < selected_ts)
InWindow_Closed(ts, start, selected_ts) == ts >= start /\ ts <= selected_ts

InWindow(ts, start, selected_ts) == ts >= start /\ ts < selected_ts

\* Mean total of the rows in [selected_ts - days, selected_ts), 0.0 if none.
WindowAvg(df, selected_ts, days) ==
    LET start == MinusDays(selected_ts, days)
        in(r) == InWindow(r.spend_date, start, selected_ts)
        rows == SelectSeq(df, in)
    IN  IF rows # << >> THEN MeanTotal(rows) ELSE Zero

ComparisonStats(current_total, prev_day_total, prev_week_avg, prev_month_avg) ==
    [current_total |-> current_total, prev_day_total |-> prev_day_total,
     prev_week_avg |-> prev_week_avg, prev_month_avg |-> prev_month_avg]

calculate_comparison(df0, selected) ==
    LET df == ensure_datetime_spend_date(df0)
        selected_ts == Timestamp(selected)
        prev_day == MinusDays(selected_ts, 1)
    IN  IF df = << >> THEN ComparisonStats(Zero, Zero, Zero, Zero)
        ELSE ComparisonStats(TotalOn(df, selected_ts), TotalOn(df, prev_day),
                             WindowAvg(df, selected_ts, 7),
                             WindowAvg(df, selected_ts, 30))

\* (dt.year == selected_ts.year) & (dt.month == selected_ts.month)
SameMonth_AnyYear(ts, selected_ts) == dt_month(ts) = dt_month(selected_ts)

SameMonth(ts, selected_ts) ==
    /\ dt_year(ts) = dt_year(selected_ts)
    /\ dt_month(ts) = dt_month(selected_ts)

\* float(month_df["total"].mean()) if not month_df.empty else 0.0
DailyAvg_AllTime(df, month_df) ==
    IF month_df # << >> THEN MeanTotal(month_df) ELSE MeanTotal(df)

DailyAvg(df, month_df) ==
    IF month_df # << >> THEN MeanTotal(month_df) ELSE Zero

\* return daily_avg * 30, daily_avg * 365
Projection(df, month_df) ==
    LET daily_avg == DailyAvg(df, month_df)
    IN  <<Times(daily_avg, 30), Times(daily_avg, 365)>>

projected_month_year(df0, selected) ==
    LET df == ensure_datetime_spend_date(df0)
        selected_ts == Timestamp(selected)
        in(r) == SameMonth(r.spend_date, selected_ts)
        month_df == SelectSeq(df, in)
    IN  IF df = << >> THEN <<Zero, Zero>> ELSE Projection(df, month_df)

----------------------------------------------------------------------------
(* Feedback Classifier.                                                    *)

CATEGORY_ORDER == <<"food", "shopping", "leisure", "other">>

CATEGORY_CONFIG ==
    [food |-> [label |-> "Food/Beverage"], shopping |-> [label |-> "Shopping"],
     leisure |-> [label |-> "Hobbies"], other |-> [label |-> "Etc (Travel)"]]

\* dict.get(key, default)
Get(dict, key, default) == IF key \in DOMAIN dict THEN dict[key] ELSE default

\* q >= the decimal literal n / d (0.5 is 1 / 2, 0.35 is 35 / 100).
AtLeastRatio(q, n, d) == GreaterEq(q, Round(Frac(n, d)))

RECURSIVE MaxFrom_LastWins(_, _, _, _)
MaxFrom_LastWins(keys, values, i, best) ==
    IF i > Len(keys) THEN best
    ELSE MaxFrom_LastWins(keys, values, i + 1,
                 IF values[keys[i]] >= values[best] THEN keys[i] ELSE best)

RECURSIVE MaxFrom(_, _, _, _)
\* max(dict, key = dict.get): the keys in insertion order, the first largest kept.
MaxFrom(keys, values, i, best) ==
    IF i > Len(keys) THEN best
    ELSE MaxFrom(keys, values, i + 1,
                 IF values[keys[i]] > values[best] THEN keys[i] ELSE best)

dominant_category(row) ==
    LET total == Get(row, "total", 0)
        category_values ==
            [k \in { CATEGORY_ORDER[i] : i \in 1..Len(CATEGORY_ORDER) } |->
                Get(row, k, 0)]
        top_cat == MaxFrom(CATEGORY_ORDER, category_values, 2, CATEGORY_ORDER[1])
    IN  IF total <= 0 THEN <<"food", Zero>>
        ELSE <<top_cat, Divide(category_values[top_cat], total)>>

NoSpending == [advisory |-> "No spending entered", names |-> None]

Strong(label) == [advisory |-> "Strong feedback", names |-> label]

Warning(label) == [advisory |-> "Warning", names |-> label]

Stable == [advisory |-> "stable", names |-> None]

StrongYear == 50000

WarningYear == 30000

\* ratio >= 0.5 or projected_year >= 50000
IsStrong_Exclusive(ratio, year) ==
    (~GreaterEq(Float(1), Times(ratio, 2))) \/ AtLeast(year, StrongYear)

IsStrong(ratio, year) == AtLeastRatio(ratio, 1, 2) \/ AtLeast(year, StrongYear)

\* ratio >= 0.35 or projected_year >= 30000
IsWarning(ratio, year) == AtLeastRatio(ratio, 35, 100) \/ AtLeast(year, WarningYear)

determine_feedback_ThresholdsFirst(row, year) ==
    LET total == Get(row, "total", 0)
        top == dominant_category(row)
        label == CATEGORY_CONFIG[top[1]].label
    IN  IF IsStrong(top[2], year) THEN Strong(label)
        ELSE IF IsWarning(top[2], year) THEN Warning(label)
        ELSE IF total <= 0 THEN NoSpending
        ELSE Stable

determine_feedback(row, year) ==
    LET total == Get(row, "total", 0)
        top == dominant_category(row)
        label == CATEGORY_CONFIG[top[1]].label
    IN  IF total <= 0 THEN NoSpending
        ELSE IF IsStrong(top[2], year) THEN Strong(label)
        ELSE IF IsWarning(top[2], year) THEN Warning(label)
        ELSE Stable

----------------------------------------------------------------------------
(* Catalog Matcher.                                                        *)

Item(brand, model, price) == [brand |-> brand, model |-> model, price |-> price]

CAR_CATALOG ==
    << Item("Toyota", "Corolla", 24000), Item("Honda", "Civic", 27000),
       Item("Mazda", "Mazda3", 28000), Item("Hyundai", "Elantra", 25000),
       Item("Tesla", "Model 3", 39000), Item("BMW", "3 Series", 47000),
       Item("Mercedes-Benz", "C-Class", 51000) >>

MACBOOK_CATALOG ==
    << Item("Apple", "MacBook Air 13 (M2)", 999),
       Item("Apple", "MacBook Air 15 (M3)", 1299),
       Item("Apple", "MacBook Pro 14 (M3)", 1599),
       Item("Apple", "MacBook Pro 14 (M4 Pro)", 1999),
       Item("Apple", "MacBook Pro 16 (M4 Pro)", 2499) >>

IPHONE_CATALOG ==
    << Item("Apple", "iPhone SE", 429), Item("Apple", "iPhone 15", 799),
       Item("Apple", "iPhone 15 Plus", 899), Item("Apple", "iPhone 16", 899),
       Item("Apple", "iPhone 16 Pro", 1099),
       Item("Apple", "iPhone 16 Pro Max", 1199) >>

\* One step of the stable sort: item goes behind every item not dearer than it.
InsertByPrice(sorted_items, item) ==
    LET notDearer(x) == x.price <= item.price
        dearer(x) == x.price > item.price
    IN  SelectSeq(sorted_items, notDearer) \o <<item>> \o SelectSeq(sorted_items, dearer)

RECURSIVE SortedFrom(_, _, _)
SortedFrom(items, i, acc) ==
    IF i > Len(items) THEN acc
    ELSE SortedFrom(items, i + 1, InsertByPrice(acc, items[i]))

\* sorted(catalog, key = lambda x: x["price"]): a new list, stable on ties.
sorted_by_price(items) == SortedFrom(items, 1, << >>)

\* [item for item in sorted_items if item["price"] <= budget]
Affordable_Strictly(sorted_items, limit) ==
    LET cheaper(x) == x.price < limit IN SelectSeq(sorted_items, cheaper)

Affordable(sorted_items, limit) ==
    LET within(x) == x.price <= limit IN SelectSeq(sorted_items, within)

\* The value returned and the caller's list after the call.
pick_best_item(items, limit) ==
    LET sorted_items == sorted_by_price(items)
        affordable == Affordable(sorted_items, limit)
    IN  [returns |-> IF affordable # << >> THEN affordable[Len(affordable)]
                     ELSE sorted_items[1],
         catalog |-> items]

----------------------------------------------------------------------------
(* Quote Generator.  A text is the sequence of its characters; a value     *)
(* that may be None is [present, value].                                   *)

Absent == [present |-> FALSE, value |-> << >>]

Present(v) == [present |-> TRUE, value |-> v]

Whitespace == {" ", "\n"}

RECURSIVE lstrip(_)
lstrip(text) ==
    IF text # << >> /\ Head(text) \in Whitespace THEN lstrip(Tail(text)) ELSE text

RECURSIVE rstrip(_)
rstrip(text) ==
    IF text # << >> /\ text[Len(text)] \in Whitespace
    THEN rstrip(SubSeq(text, 1, Len(text) - 1)) ELSE text

\* str.strip()
strip(text) == rstrip(lstrip(text))

\* str.replace("\n", " ")
replace_newlines(text) == [i \in 1..Len(text) |-> IF text[i] = "\n" THEN " " ELSE text[i]]

\* What the service does on one call: the client library is missing, the
\* request raises, the response has no choice, or it carries a content
\* (None or a text).
RemoteOutcome(kind, error, content) == [kind |-> kind, error |-> error, content |-> content]

NoRemote == RemoteOutcome("not called", "", Absent)

\* The try body: the exception it raises ("" for none), the text it
\* computes, and whether the request went out.
QuoteBody(outcome) ==
    CASE outcome.kind = "import fails" ->
            [raised |-> outcome.error, text |-> << >>, contacted |-> FALSE]
      [] outcome.kind = "request raises" ->
            [raised |-> outcome.error, text |-> << >>, contacted |-> TRUE]
      [] outcome.kind = "no choices" ->
            [raised |-> "IndexError", text |-> << >>, contacted |-> TRUE]
      [] OTHER ->
            [raised |-> "", contacted |-> TRUE,
             text |-> replace_newlines(strip(
                        IF outcome.content.present THEN outcome.content.value
                        ELSE << >>))]

\* except Exception as e
CaughtByExcept_ImportErrorOnly(exception) == exception = "ModuleNotFoundError"

CaughtByExcept(exception) == exception # ""

MissingKeyMessage == <<"Enter OpenAI API key to generate a rich-mindset quote.">>

FailedMessage(exception) == <<"OpenAI request failed: ", exception>>

\* The pair returned, the exception that leaves the function ("" for none)
\* and whether the service was contacted.
get_rich_quote(api_key, outcome) ==
    LET body == QuoteBody(outcome)
    IN  IF api_key = ""
        THEN [returns |-> <<Absent, Present(MissingKeyMessage)>>, raised |-> "",
              contacted |-> FALSE]
        ELSE IF body.raised = ""
        THEN [returns |-> <<Present(body.text), Absent>>, raised |-> "",
              contacted |-> body.contacted]
        ELSE IF CaughtByExcept(body.raised)
        THEN [returns |-> <<Absent, Present(FailedMessage(body.raised))>>,
              raised |-> "", contacted |-> body.contacted]
        ELSE [returns |-> <<Absent, Absent>>, raised |-> body.raised,
              contacted |-> body.contacted]

NoResult == [returns |-> <<Absent, Absent>>, raised |-> "", contacted |-> FALSE]

----------------------------------------------------------------------------
(* Idle values of the variables a specification does not use.              *)

NoStats == None

AggIdle ==
    /\ all_df = << >>
    /\ selected_date = Date(2024, 3, 15)
    /\ comparison = NoStats
    /\ projected = None

FbIdle ==
    /\ latest_row = None
    /\ projected_year = Zero
    /\ feedback = None

CatIdle ==
    /\ catalog = << >>
    /\ budget = 0
    /\ picked = None

StoreIdle ==
    /\ clock = 0
    /\ log = << >>

QuoteIdle ==
    /\ openai_api_key = ""
    /\ remote = NoRemote
    /\ quote_result = NoResult

PassIdle ==
    /\ rich_quote = << >>
    /\ entered = Amounts(0, 0, 0, 0)
    /\ save_pressed = FALSE
    /\ generate_quote = FALSE
    /\ shown_error = Absent
    /\ rendered = {}

----------------------------------------------------------------------------
(* Specification Spec: the record store under a sequence of saves.         *)

Init ==
    /\ store = init_db
    /\ StoreIdle /\ AggIdle /\ FbIdle /\ CatIdle /\ QuoteIdle /\ PassIdle
    /\ pc = "store"

\* One press of Save: upsert_spending(selected_iso, food, shopping, hobbies, other).
UpsertSpending ==
    /\ pc = "store"
    /\ Len(log) < MaxOps
    /\ \E d \in SaveDates, a \in AmountRows :
          /\ store' = upsert_spending(store, isoformat(d), a.food, a.shopping,
                                      a.leisure, a.other, clock)
          /\ log' = Append(log, [spend_date |-> isoformat(d), amounts |-> a,
                                 now |-> clock])
    /\ UNCHANGED <<clock, aggVars, fbVars, catVars, quoteVars, passVars, pc>>

\* A second passes on the wall clock.
Tick ==
    /\ pc = "store"
    /\ clock < MaxTime
    /\ clock' = clock + 1
    /\ UNCHANGED <<store, log, aggVars, fbVars, catVars, quoteVars, passVars, pc>>

Next == UpsertSpending \/ Tick

Spec == Init /\ [][Next]_vars

\* The calls of the log that saved the text key k, by position.
CallsFor(k) == { i \in 1..Len(log) : log[i].spend_date = k }

FirstCall(k) == CHOOSE i \in CallsFor(k) : \A j \in CallsFor(k) : i <= j

LastCall(k) == CHOOSE i \in CallsFor(k) : \A j \in CallsFor(k) : i >= j

\* C1: after any sequence of upsert_spending calls with non-negative
\* amounts, every stored row has total = food + shopping + leisure + other.
C1_TotalIsSumOfCategories ==
    \A k \in DOMAIN store :
        store[k].total =
            store[k].food + store[k].shopping + store[k].leisure + store[k].other

\* A row that was overwritten by a save with other amounts holds the new sum.
C1_Witness ==
    \E k \in DOMAIN store :
        /\ Cardinality(CallsFor(k)) >= 2
        /\ log[FirstCall(k)].amounts = Amounts(10, 20, 30, 40)
        /\ log[LastCall(k)].amounts = Amounts(5, 0, 0, 2)
        /\ store[k].total = 7

\* C2: the store holds exactly one row per date ever saved; the row carries
\* the four amounts and the total of the last upsert for that date, the
\* created_at of the first upsert for it and the updated_at of the last one
\* (so a repeated identical upsert changes nothing but updated_at, and the
\* rows of other dates stay as their own last upsert left them).
C2_OneRowPerDateLastWriteWins ==
    /\ DOMAIN store = { log[i].spend_date : i \in 1..Len(log) }
    /\ \A k \in DOMAIN store :
          LET first == log[FirstCall(k)]
              last == log[LastCall(k)]
          IN  /\ store[k].food = last.amounts.food
              /\ store[k].shopping = last.amounts.shopping
              /\ store[k].leisure = last.amounts.leisure
              /\ store[k].other = last.amounts.other
              /\ store[k].total = last.amounts.food + last.amounts.shopping
                                  + last.amounts.leisure + last.amounts.other
              /\ store[k].created_at = first.now
              /\ store[k].updated_at = last.now

\* A date saved twice with identical arguments, a second later, while the
\* store also holds another date.
C2_Witness ==
    /\ Cardinality(DOMAIN store) >= 2
    /\ \E k \in DOMAIN store :
          /\ Cardinality(CallsFor(k)) = 2
          /\ log[FirstCall(k)].amounts = log[LastCall(k)].amounts
          /\ log[FirstCall(k)].amounts = Amounts(10, 20, 30, 40)
          /\ log[FirstCall(k)].now < log[LastCall(k)].now
          /\ store[k].created_at < store[k].updated_at
          /\ store[k].total = 100

----------------------------------------------------------------------------
(* Specification SpecAgg: the aggregation engine on a stored history.      *)

\* The dates selected in the date input.
SelectedDates == { Date(2024, 3, 15), Date(2024, 4, 1), Date(2024, 2, 14) }

\* The tables upsert_spending can have built: at most MaxRecords days.
StoredRow(a) ==
    ExcludedRow(a.food, a.shopping, a.leisure, a.other,
                a.food + a.shopping + a.leisure + a.other, 0)

Histories ==
    UNION { [ { isoformat(d) : d \in ds } -> { StoredRow(a) : a \in AmountRows } ] :
            ds \in { x \in SUBSET DateSet : Cardinality(x) <= MaxRecords } }

InitAgg ==
    /\ store \in Histories
    /\ StoreIdle /\ FbIdle /\ CatIdle /\ QuoteIdle /\ PassIdle
    /\ all_df = << >>
    /\ selected_date \in SelectedDates
    /\ comparison = NoStats
    /\ projected = None
    /\ pc = "load"

\* all_df = load_all_data()
LoadAllData ==
    /\ pc = "load"
    /\ all_df' = load_all_data(store)
    /\ pc' = "compare"
    /\ UNCHANGED <<storeVars, selected_date, comparison, projected, fbVars, catVars, quoteVars, passVars>>

\* comparison = calculate_comparison(all_df, selected_date)
CalculateComparison ==
    /\ pc = "compare"
    /\ comparison' = calculate_comparison(all_df, selected_date)
    /\ pc' = "project"
    /\ UNCHANGED <<storeVars, all_df, selected_date, projected, fbVars, catVars, quoteVars, passVars>>

\* projected_month, projected_year = projected_month_year(all_df, selected_date)
ProjectedMonthYear ==
    /\ pc = "project"
    /\ projected' = projected_month_year(all_df, selected_date)
    /\ pc' = "done"
    /\ UNCHANGED <<storeVars, all_df, selected_date, comparison, fbVars, catVars, quoteVars, passVars>>

NextAgg == LoadAllData \/ CalculateComparison \/ ProjectedMonthYear

SpecAgg == InitAgg /\ [][NextAgg]_vars

\* The calendar as datetime.date counts it: the proleptic ordinal of a day.
IsLeap(y) == y % 4 = 0 /\ (y % 100 # 0 \/ y % 400 = 0)

DaysInMonth(y, m) ==
    IF m = 2 THEN (IF IsLeap(y) THEN 29 ELSE 28)
    ELSE IF m \in {4, 6, 9, 11} THEN 30 ELSE 31

RECURSIVE DaysBeforeMonth(_, _)
DaysBeforeMonth(y, m) ==
    IF m = 1 THEN 0 ELSE DaysBeforeMonth(y, m - 1) + DaysInMonth(y, m - 1)

Ordinal(y, m, d) ==
    (y - 1) * 365 + (y - 1) \div 4 - (y - 1) \div 100 + (y - 1) \div 400
    + DaysBeforeMonth(y, m) + d

\* How many days the stored date k lies before the selected date.
DaysBefore(k) ==
    Ordinal(selected_date.year, selected_date.month, selected_date.day)
    - Ordinal(k[1], k[2], k[3])

RECURSIVE SumStored(_)
SumStored(keys) ==
    IF keys = {} THEN 0
    ELSE LET k == CHOOSE x \in keys : TRUE
         IN  store[k].total + SumStored(keys \ {k})

\* The mean stored total over a set of dates as a float, 0 over no date.
MeanStored(keys) ==
    IF keys = {} THEN Zero ELSE Divide(SumStored(keys), Cardinality(keys))

\* The stored dates in [selected - n days, selected).
StoredWithin(n) == { k \in DOMAIN store : DaysBefore(k) >= 1 /\ DaysBefore(k) <= n }

\* The stored dates in the selected date's calendar month and year.
StoredInMonth ==
    { k \in DOMAIN store : k[1] = selected_date.year /\ k[2] = selected_date.month }

Compared == pc \in {"project", "done"}

\* C3: prev_week_avg is the mean total over exactly the records dated in
\* [selected - 7 days, selected) and prev_month_avg over exactly those in
\* [selected - 30 days, selected), divided by the number of records in the
\* window and 0 when the window holds none; the selected date itself never
\* contributes, the dates 7 (resp. 30) days before it do.
C3_WindowAverages ==
    Compared =>
        /\ comparison.prev_week_avg = MeanStored(StoredWithin(7))
        /\ comparison.prev_month_avg = MeanStored(StoredWithin(30))

\* Records on the selected day, 7 days before and 8 days before: only the
\* middle one makes the week average, the two earlier ones the month average.
C3_Witness ==
    /\ pc = "done"
    /\ selected_date = Date(2024, 3, 15)
    /\ DOMAIN store = { <<2024, 3, 15>>, <<2024, 3, 8>>, <<2024, 3, 7>> }
    /\ store[<<2024, 3, 15>>].total = 100
    /\ store[<<2024, 3, 8>>].total = 7
    /\ store[<<2024, 3, 7>>].total = 100
    /\ comparison.prev_week_avg = Float(7)
    /\ comparison.prev_month_avg = Frac(107, 2)

\* C4: calculate_comparison returns (0, 0, 0, 0) on an empty history;
\* otherwise current_total is the total of the record dated selected or 0
\* and prev_day_total the total of the record dated selected - 1 day or 0,
\* whatever other dates have records.
C4_MissingDataIsZero ==
    Compared =>
        /\ comparison \in [ {"current_total", "prev_day_total", "prev_week_avg",
                             "prev_month_avg"} -> [num : Nat, den : Nat \ {0}] ]
        /\ store = << >> => comparison = ComparisonStats(Zero, Zero, Zero, Zero)
        /\ comparison.current_total =
              IF isoformat(selected_date) \in DOMAIN store
              THEN Float(store[isoformat(selected_date)].total) ELSE Zero
        /\ \A k \in DOMAIN store :
              DaysBefore(k) = 1 => comparison.prev_day_total = Float(store[k].total)
        /\ (\A k \in DOMAIN store : DaysBefore(k) # 1)
              => comparison.prev_day_total = Zero

\* No record on the selected day, one on the day before and one later.
C4_Witness ==
    /\ pc = "done"
    /\ selected_date = Date(2024, 3, 15)
    /\ DOMAIN store = { <<2024, 3, 14>>, <<2024, 4, 1>> }
    /\ store[<<2024, 3, 14>>].total = 100
    /\ store[<<2024, 4, 1>>].total = 7
    /\ comparison.current_total = Zero
    /\ comparison.prev_day_total = Float(100)

\* The exact product of a float and a whole number.
Product(q, k) == Frac(q.num * k, q.den)

\* |a - b| for floats a and b, and a, in units of their finer denominator.
Gap(a, b) ==
    LET unit == IF a.den >= b.den THEN a.den ELSE b.den
        x == a.num * (unit \div a.den)
        y == b.num * (unit \div b.den)
    IN  [gap |-> IF x >= y THEN x - y ELSE y - x, of |-> x]

\* The daily average the projection is to use: the float mean over the
\* selected month's records.
MonthAvg == MeanStored(StoredInMonth)

\* C5 as claimed: for every history 30 * projectedYear = 365 * projectedMonth,
\* and with records in the selected month dailyAvg is their mean.
C5_ProjectionsInExactProportion ==
    pc = "done" =>
        /\ Product(projected[2], 30) = Product(projected[1], 365)
        /\ StoredInMonth # {} =>
              projected = <<Times(MonthAvg, 30), Times(MonthAvg, 365)>>

\* C5: projected_month_year returns (dailyAvg * 30, dailyAvg * 365), each
\* product rounded to a float, for one dailyAvg; 30 * projectedYear and
\* 365 * projectedMonth agree to within that rounding (a relative difference
\* of at most 2^(2 - SignificandBits)) and are equal whenever dailyAvg is a whole
\* number; with records in the selected calendar month and year, dailyAvg is
\* the mean total over exactly those records.
C5_ProjectionFromMonthMean ==
    pc = "done" =>
        /\ \E avg \in {MonthAvg, Zero} :
              /\ projected = <<Times(avg, 30), Times(avg, 365)>>
              /\ avg.den = 1 =>
                    Product(projected[2], 30) = Product(projected[1], 365)
        /\ LET g == Gap(Product(projected[2], 30), Product(projected[1], 365))
           IN  g.gap * Pow2(SignificandBits - 2) <= g.of
        /\ StoredInMonth # {} =>
              projected = <<Times(MonthAvg, 30), Times(MonthAvg, 365)>>

\* March 2024 selected; records in March 2024, March 2023 and February 2024.
C5_Witness ==
    /\ pc = "done"
    /\ selected_date = Date(2024, 3, 15)
    /\ DOMAIN store = { <<2024, 3, 8>>, <<2023, 3, 15>>, <<2024, 2, 14>> }
    /\ store[<<2024, 3, 8>>].total = 7
    /\ store[<<2023, 3, 15>>].total = 100
    /\ store[<<2024, 2, 14>>].total = 100
    /\ projected = <<Float(210), Float(2555)>>
    /\ Product(projected[2], 30) = Product(projected[1], 365)

\* C6 as claimed: with no record in the selected month, dailyAvg is the mean
\* total over the entire history.
C6_FallsBackToAllTimeMean ==
    (pc = "done" /\ StoredInMonth = {}) =>
        projected = <<Times(MeanStored(DOMAIN store), 30),
                      Times(MeanStored(DOMAIN store), 365)>>

\* C6 as the code has it: with no record in the selected month the
\* projection is (0, 0), whether or not the history is empty.
C6_NoMonthDataProjectsZero ==
    (pc = "done" /\ StoredInMonth = {}) => projected = <<Zero, Zero>>

\* A history with spending, none of it in the selected month.
C6_Witness ==
    /\ pc = "done"
    /\ selected_date = Date(2024, 2, 14)
    /\ StoredInMonth = {}
    /\ \E k \in DOMAIN store : store[k].total = 100
    /\ projected = <<Zero, Zero>>

----------------------------------------------------------------------------
(* Specification SpecFb: the classifier on one day's amounts.              *)

\* Amounts of one category around the 0.35 and 0.5 shares.
FeedbackAmounts == {0, 32, 33, 35, 50}

\* Projected yearly figures around the 30000 and 50000 thresholds.
ProjectedYears ==
    { Zero, Float(29999), Frac(59999, 2), Float(30000), Float(49999),
      Float(50000), Float(60000) }

\* latest_row = {"food": food, ..., "total": live_total}
LatestRow(food, shopping, hobbies, other) ==
    [food |-> food, shopping |-> shopping, leisure |-> hobbies, other |-> other,
     total |-> food + shopping + hobbies + other]

InitFb ==
    /\ store = init_db
    /\ StoreIdle /\ AggIdle /\ CatIdle /\ QuoteIdle /\ PassIdle
    /\ \E f \in FeedbackAmounts, s \in FeedbackAmounts, l \in FeedbackAmounts,
          o \in FeedbackAmounts : latest_row = LatestRow(f, s, l, o)
    /\ projected_year \in ProjectedYears
    /\ feedback = None
    /\ pc = "classify"

\* feedback = determine_feedback(latest_row, projected_year)
DetermineFeedback ==
    /\ pc = "classify"
    /\ feedback' = determine_feedback(latest_row, projected_year)
    /\ pc' = "done"
    /\ UNCHANGED <<storeVars, aggVars, latest_row, projected_year, catVars, quoteVars, passVars>>

NextFb == DetermineFeedback

SpecFb == InitFb /\ [][NextFb]_vars

Classified == pc = "done"

\* The largest of the four amounts of the classified row.
DominantAmount ==
    CHOOSE a \in { latest_row[c] : c \in {"food", "shopping", "leisure", "other"} } :
        \A c \in {"food", "shopping", "leisure", "other"} : latest_row[c] <= a

\* C7: determine_feedback returns the "no spending entered" advisory
\* whenever the day's total is <= 0, for every projected_year: the total
\* check precedes both threshold checks.
C7_NoSpendingFirst ==
    (Classified /\ latest_row.total <= 0) => feedback = NoSpending

\* Nothing entered while the projection is above the strong threshold.
C7_Witness ==
    /\ Classified
    /\ latest_row.total = 0
    /\ projected_year = Float(60000)
    /\ feedback = NoSpending

\* C8: for total > 0 the advisory is strong iff dominantAmount / total >= 0.5
\* or projectedYear >= 50000; otherwise warning iff dominantAmount / total
\* >= 0.35 or projectedYear >= 30000; otherwise stable (bounds inclusive).
C8_ThresholdLadder ==
    (Classified /\ latest_row.total > 0) =>
        LET strong == \/ 2 * DominantAmount >= latest_row.total
                      \/ projected_year.num >= 50000 * projected_year.den
            warning == \/ 100 * DominantAmount >= 35 * latest_row.total
                       \/ projected_year.num >= 30000 * projected_year.den
        IN  feedback.advisory =
                IF strong THEN "Strong feedback"
                ELSE IF warning THEN "Warning" ELSE "stable"

\* A dominant share of exactly 0.35 with no projection: the warning.
C8_Witness ==
    /\ Classified
    /\ latest_row = LatestRow(35, 33, 32, 0)
    /\ projected_year = Zero
    /\ feedback = Warning("Food/Beverage")

\* C9: for total > 0 the category a strong or warning advisory names has the
\* largest of the four amounts, and is the first such category in the order
\* food, shopping, leisure, other.
C9_NamesFirstLargest ==
    (Classified /\ latest_row.total > 0
        /\ feedback.advisory \in {"Strong feedback", "Warning"}) =>
        \E i \in 1..4 :
            /\ feedback.names = CATEGORY_CONFIG[CATEGORY_ORDER[i]].label
            /\ latest_row[CATEGORY_ORDER[i]] = DominantAmount
            /\ \A j \in 1..(i - 1) : latest_row[CATEGORY_ORDER[j]] < DominantAmount

\* Shopping and leisure tie for the largest amount: shopping is named.
C9_Witness ==
    /\ Classified
    /\ latest_row = LatestRow(0, 50, 50, 33)
    /\ feedback = Strong("Shopping")

----------------------------------------------------------------------------
(* Specification SpecCat: the catalog matcher on a catalog and a budget.   *)

CatalogPrices == {50, 100, 150}

CatalogModels == <<"A", "B", "C", "D", "E">>

\* The catalogs of the application and short catalogs in any price order.
Catalogs ==
    {CAR_CATALOG, MACBOOK_CATALOG, IPHONE_CATALOG}
    \cup UNION { { [i \in 1..n |-> Item("X", CatalogModels[i], p[i])] :
                   p \in [1..n -> CatalogPrices] } : n \in 1..MaxCatalogLen }

Budgets == {0, 49, 50, 75, 100, 149, 150, 200, 428, 899, 1000, 26000, 60000}

InitCat ==
    /\ store = init_db
    /\ StoreIdle /\ AggIdle /\ FbIdle /\ QuoteIdle /\ PassIdle
    /\ catalog \in Catalogs
    /\ budget \in Budgets
    /\ picked = None
    /\ pc = "pick"

\* car = pick_best_item(CAR_CATALOG, annual_if_repeat), and the like.
PickBestItem ==
    /\ pc = "pick"
    /\ picked' = pick_best_item(catalog, budget).returns
    /\ catalog' = pick_best_item(catalog, budget).catalog
    /\ pc' = "done"
    /\ UNCHANGED <<storeVars, aggVars, fbVars, budget, quoteVars, passVars>>

NextCat == PickBestItem

SpecCat == InitCat /\ [][NextCat]_vars

\* The positions of the catalog holding an item within the budget.
AffordablePositions == { i \in 1..Len(catalog) : catalog[i].price <= budget }

\* picked is the item at position i: the dearest affordable one, the latest
\* of equal price; or, none being affordable, the cheapest, the earliest.
IsBestAt(i) ==
    /\ picked = catalog[i]
    /\ IF AffordablePositions # {}
       THEN /\ i \in AffordablePositions
            /\ \A j \in AffordablePositions :
                  \/ catalog[j].price < catalog[i].price
                  \/ catalog[j].price = catalog[i].price /\ j <= i
       ELSE \A j \in 1..Len(catalog) :
                  \/ catalog[j].price > catalog[i].price
                  \/ catalog[j].price = catalog[i].price /\ j >= i

\* C10: for a non-empty catalog and a budget >= 0, pick_best_item returns an
\* item of the catalog: the dearest one with price <= budget (the latest in
\* catalog order among equals), else the cheapest one (the earliest among
\* equals); it always returns an item and leaves the catalog unmodified.
C10_PicksBestItem ==
    /\ [](pc = "done" => \E i \in 1..Len(catalog) : IsBestAt(i))
    /\ [][catalog' = catalog]_vars

\* Two phones at 899 and a budget of exactly 899: the later one is returned.
C10_Witness ==
    /\ pc = "done"
    /\ catalog = IPHONE_CATALOG
    /\ budget = 899
    /\ picked = Item("Apple", "iPhone 16", 899)

----------------------------------------------------------------------------
(* Specification SpecQuote: get_rich_quote on a key and a service outcome. *)

ApiKeys == {"", "sk-test"}

RemoteErrors == {"AuthenticationError", "APIConnectionError", "RateLimitError"}

Contents ==
    UNION { [1..n -> {"a", " ", "\n"}] : n \in 0..MaxContentLen }

RemoteOutcomes ==
    { RemoteOutcome("import fails", "ModuleNotFoundError", Absent),
      RemoteOutcome("no choices", "", Absent),
      RemoteOutcome("response", "", Absent) }
    \cup { RemoteOutcome("request raises", e, Absent) : e \in RemoteErrors }
    \cup { RemoteOutcome("response", "", Present(c)) : c \in Contents }

InitQuote ==
    /\ store = init_db
    /\ StoreIdle /\ AggIdle /\ FbIdle /\ CatIdle /\ PassIdle
    /\ openai_api_key \in ApiKeys
    /\ remote \in RemoteOutcomes
    /\ quote_result = NoResult
    /\ pc = "quote"

\* quote, err = get_rich_quote(openai_api_key, model_name, live_total, ...)
GetRichQuote ==
    /\ pc = "quote"
    /\ quote_result' = get_rich_quote(openai_api_key, remote)
    /\ pc' = "done"
    /\ UNCHANGED <<storeVars, aggVars, fbVars, catVars, openai_api_key, remote,
                   passVars>>

NextQuote == GetRichQuote

SpecQuote == InitQuote /\ [][NextQuote]_vars

\* The service call of this state succeeds: a response with a choice.
RemoteSucceeds == remote.kind = "response"

\* C11: get_rich_quote never raises to its caller and returns a pair with
\* exactly one side present: (quote, None) on success, (None, message)
\* otherwise; with an empty key it returns the error pair without contacting
\* the service, and a failure of the call or of loading the client becomes
\* the error pair.
C11_QuoteOrErrorNeverRaises ==
    pc = "done" =>
        LET quote == quote_result.returns[1]
            err == quote_result.returns[2]
        IN  /\ quote_result.raised = ""
            /\ quote.present # err.present
            /\ err.present => err.value # << >>
            /\ openai_api_key = "" =>
                  /\ ~quote_result.contacted
                  /\ err = Present(MissingKeyMessage)
            /\ (openai_api_key # "" /\ ~RemoteSucceeds) =>
                  /\ err.present
                  /\ err.value[2] = (IF remote.kind = "no choices"
                                     THEN "IndexError" ELSE remote.error)
            /\ (openai_api_key # "" /\ RemoteSucceeds) => quote.present

\* A key is set and the request is refused: the error pair comes back.
C11_Witness ==
    /\ pc = "done"
    /\ openai_api_key = "sk-test"
    /\ remote = RemoteOutcome("request raises", "AuthenticationError", Absent)
    /\ quote_result.returns =
          <<Absent, Present(<<"OpenAI request failed: ", "AuthenticationError">>)>>
    /\ quote_result.contacted

----------------------------------------------------------------------------
(* Specification SpecPass: the script, run top to bottom once per user     *)
(* action.  The table and st.session_state outlive a run; every other name  *)
(* is bound anew by each run.                                               *)

\* The stages of one run in the order of the script.
PassOrder_HistoryFirst ==
    <<"load", "save", "compare", "project", "feedback", "quote", "trends",
      "calendar">>

PassOrder ==
    <<"save", "load", "compare", "project", "feedback", "quote", "trends",
      "calendar">>

\* The stage the script reaches after a stage, "end" after the last one.
After(stage) ==
    LET i == CHOOSE j \in 1..Len(PassOrder) : PassOrder[j] = stage
    IN  IF i < Len(PassOrder) THEN PassOrder[i + 1] ELSE "end"

\* st.button is True only in the run its click started: at most one button
\* is pressed in a run.
ButtonPresses == { b \in BOOLEAN \X BOOLEAN : ~(b[1] /\ b[2]) }

\* What the service does in the runs of this specification.
PassOutcomes ==
    { RemoteOutcome("import fails", "ModuleNotFoundError", Absent),
      RemoteOutcome("request raises", "AuthenticationError", Absent),
      RemoteOutcome("response", "", Absent),
      RemoteOutcome("response", "", Present(<<"a", "\n", "a">>)) }

\* if err
Truthy(text) == text.present /\ text.value # << >>

\* if err: st.error(err)  else: st.session_state.rich_quote = quote
SessionQuote_Always(current, result) == result.returns[1].value

SessionQuote(current, result) ==
    IF Truthy(result.returns[2]) THEN current ELSE result.returns[1].value

ShownError(result) ==
    IF Truthy(result.returns[2]) THEN result.returns[2] ELSE Absent

\* init_db() and init_state() of the first run: no row, no quote.
InitPass ==
    /\ store = init_db
    /\ StoreIdle /\ AggIdle /\ FbIdle /\ CatIdle /\ QuoteIdle /\ PassIdle
    /\ pc = "start"

\* A user action starts a run: the widgets hold what the user left in them.
Rerun ==
    /\ pc \in {"start", "end"}
    /\ openai_api_key' \in ApiKeys
    /\ selected_date' \in SaveDates
    /\ entered' \in AmountRows
    /\ \E b \in ButtonPresses : save_pressed' = b[1] /\ generate_quote' = b[2]
    /\ all_df' = << >>
    /\ comparison' = NoStats
    /\ projected' = None
    /\ latest_row' = None
    /\ projected_year' = Zero
    /\ feedback' = None
    /\ remote' = NoRemote
    /\ quote_result' = NoResult
    /\ shown_error' = Absent
    /\ rendered' = {}
    /\ pc' = PassOrder[1]
    /\ UNCHANGED <<storeVars, catVars, rich_quote>>

\* if st.button("Save Expense"): upsert_spending(selected_iso, ...)
SaveExpense ==
    /\ pc = "save"
    /\ store' = IF save_pressed
                THEN upsert_spending(store, isoformat(selected_date), entered.food,
                                     entered.shopping, entered.leisure,
                                     entered.other, clock)
                ELSE store
    /\ pc' = After("save")
    /\ UNCHANGED <<clock, log, aggVars, fbVars, catVars, quoteVars, passVars>>

\* all_df = load_all_data()
PassLoadAllData ==
    /\ pc = "load"
    /\ all_df' = load_all_data(store)
    /\ pc' = After("load")
    /\ UNCHANGED <<storeVars, selected_date, comparison, projected, fbVars, catVars,
                   quoteVars, passVars>>

\* comparison = calculate_comparison(all_df, selected_date)
PassCalculateComparison ==
    /\ pc = "compare"
    /\ comparison' = calculate_comparison(all_df, selected_date)
    /\ pc' = After("compare")
    /\ UNCHANGED <<storeVars, all_df, selected_date, projected, fbVars, catVars,
                   quoteVars, passVars>>

\* projected_month, projected_year = projected_month_year(all_df, selected_date)
PassProjectedMonthYear ==
    /\ pc = "project"
    /\ projected' = projected_month_year(all_df, selected_date)
    /\ pc' = After("project")
    /\ UNCHANGED <<storeVars, all_df, selected_date, comparison, fbVars, catVars,
                   quoteVars, passVars>>

\* latest_row = {...}; feedback = determine_feedback(latest_row, projected_year)
PassDetermineFeedback ==
    /\ pc = "feedback"
    /\ latest_row' = LatestRow(entered.food, entered.shopping, entered.leisure,
                               entered.other)
    /\ projected_year' = projected[2]
    /\ feedback' = determine_feedback(latest_row', projected_year')
    /\ pc' = After("feedback")
    /\ UNCHANGED <<storeVars, aggVars, catVars, quoteVars, passVars>>

\* if generate_quote: quote, err = get_rich_quote(...); an exception leaving
\* the call would end the run there.
GenerateQuote ==
    /\ pc = "quote"
    /\ IF generate_quote
       THEN \E outcome \in PassOutcomes :
               LET result == get_rich_quote(openai_api_key, outcome)
               IN  /\ remote' = outcome
                   /\ quote_result' = result
                   /\ shown_error' = (IF result.raised = "" THEN ShownError(result)
                                      ELSE shown_error)
                   /\ rich_quote' = (IF result.raised = ""
                                     THEN SessionQuote(rich_quote, result)
                                     ELSE rich_quote)
                   /\ pc' = (IF result.raised = "" THEN After("quote")
                             ELSE "aborted")
       ELSE /\ pc' = After("quote")
            /\ UNCHANGED <<remote, quote_result, shown_error, rich_quote>>
    /\ UNCHANGED <<storeVars, aggVars, fbVars, catVars, openai_api_key, entered,
                   save_pressed, generate_quote, rendered>>

\* Category Trends
CategoryTrends ==
    /\ pc = "trends"
    /\ rendered' = rendered \cup {"trends"}
    /\ pc' = After("trends")
    /\ UNCHANGED <<storeVars, aggVars, fbVars, catVars, quoteVars, rich_quote,
                   entered, save_pressed, generate_quote, shown_error>>

\* Monthly Calendar
MonthlyCalendar ==
    /\ pc = "calendar"
    /\ rendered' = rendered \cup {"calendar"}
    /\ pc' = After("calendar")
    /\ UNCHANGED <<storeVars, aggVars, fbVars, catVars, quoteVars, rich_quote,
                   entered, save_pressed, generate_quote, shown_error>>

NextPass ==
    \/ Rerun
    \/ SaveExpense
    \/ PassLoadAllData
    \/ PassCalculateComparison
    \/ PassProjectedMonthYear
    \/ PassDetermineFeedback
    \/ GenerateQuote
    \/ CategoryTrends
    \/ MonthlyCalendar

SpecPass == InitPass /\ [][NextPass]_vars

\* A step inside a run, as opposed to the user action that starts one.
InRun == pc \notin {"start", "end"}

\* The generation requested in this step fails: no key, or the service gives
\* no response.
GenerationFails ==
    /\ pc = "quote"
    /\ generate_quote
    /\ openai_api_key = "" \/ remote'.kind # "response"

\* C12: in a run where quote generation is requested and fails, the table
\* and rich_quote are left unchanged, the computed comparison, projection
\* and feedback are unaffected, and the run still goes on to the trend charts
\* and the calendar; rich_quote is overwritten only by a successful
\* generation.
C12_FailedQuoteChangesNothing ==
    /\ [][GenerationFails =>
            /\ store' = store
            /\ rich_quote' = rich_quote
            /\ comparison' = comparison
            /\ projected' = projected
            /\ feedback' = feedback
            /\ shown_error'.present
            /\ pc' = "trends"]_vars
    /\ [][(InRun /\ generate_quote) => store' = store]_vars
    /\ [][rich_quote' # rich_quote =>
            /\ pc = "quote"
            /\ generate_quote
            /\ openai_api_key # ""
            /\ remote'.kind = "response"
            /\ quote_result'.returns = <<Present(rich_quote'), Absent>>]_vars
    /\ [][pc = "trends" => pc' = "calendar" /\ rendered' = rendered \cup {"trends"}]_vars
    /\ [][pc = "calendar" => pc' = "end" /\ rendered' = rendered \cup {"calendar"}]_vars
    /\ [](pc # "aborted")
    /\ [](pc = "end" => rendered = {"trends", "calendar"})

\* A run whose generation was refused has ended: the error is shown, the
\* quote of an earlier run and the saved row are still there, and both
\* closing stages were rendered.
C12_Witness ==
    /\ pc = "end"
    /\ generate_quote
    /\ remote = RemoteOutcome("request raises", "AuthenticationError", Absent)
    /\ shown_error = Present(<<"OpenAI request failed: ", "AuthenticationError">>)
    /\ rich_quote = <<"a", " ", "a">>
    /\ DOMAIN store = { isoformat(Date(2024, 3, 15)) }
    /\ rendered = {"trends", "calendar"}

\* The run has computed comparison and projection; it has computed feedback.
PassProjected == pc \in {"feedback", "quote", "trends", "calendar", "end"}

PassClassified == pc \in {"quote", "trends", "calendar", "end"}

\* The sum of the amounts in the number inputs.
EnteredTotal == entered.food + entered.shopping + entered.leisure + entered.other

\* Comparison and projection as the table of this state gives them.
StoredComparison ==
    LET key == isoformat(selected_date)
        prev == { k \in DOMAIN store : DaysBefore(k) = 1 }
    IN  ComparisonStats(
            IF key \in DOMAIN store THEN Float(store[key].total) ELSE Zero,
            IF prev # {} THEN Float(SumStored(prev)) ELSE Zero,
            MeanStored(StoredWithin(7)), MeanStored(StoredWithin(30)))

StoredProjection == <<Times(MonthAvg, 30), Times(MonthAvg, 365)>>

\* C13: within one run the table is written before the history is read: if
\* Save is pressed for date d with amounts (f, s, l, o), the comparison of the
\* same run has current_total = f + s + l + o and the projection includes the
\* saved record of d's month; in a run without Save the table is not written,
\* comparison and projection reflect the stored records only, and feedback is
\* computed from the amounts entered, saved or not.
C13_SaveBeforeHistoryRead ==
    /\ [](PassProjected =>
            LET key == isoformat(selected_date)
            IN  /\ save_pressed =>
                      /\ key \in StoredInMonth
                      /\ store[key].total = EnteredTotal
                      /\ comparison.current_total = Float(EnteredTotal)
                /\ comparison = StoredComparison
                /\ projected = StoredProjection)
    /\ [](PassClassified =>
            feedback = determine_feedback(
                          LatestRow(entered.food, entered.shopping,
                                    entered.leisure, entered.other),
                          StoredProjection[2]))
    /\ [][store' # store => pc = "save" /\ save_pressed]_vars
    /\ [][(InRun /\ ~save_pressed) => store' = store]_vars

\* A run that saved 100 for 15 March next to the 7 stored for 14 March has
\* ended: the comparison shows 100 against 7 and the projection uses both.
C13_Witness ==
    /\ pc = "end"
    /\ save_pressed
    /\ selected_date = Date(2024, 3, 15)
    /\ entered = Amounts(10, 20, 30, 40)
    /\ DOMAIN store = { isoformat(Date(2024, 3, 15)), isoformat(Date(2024, 3, 14)) }
    /\ comparison.current_total = Float(100)
    /\ comparison.prev_day_total = Float(7)
    /\ projected = <<Times(Divide(107, 2), 30), Times(Divide(107, 2), 365)>>

====
